---- MODULE Spec2Model ----
(***************************************************************************)
(* Model of backup.py: profile driven backups with rsync, in two modes.    *)
(* "synchronize" mirrors source into target; "incremental" keeps dated     *)
(* snapshot folders under target, clones the newest one with hard links    *)
(* (cp -al), removes the oldest one (rm -rf) and mirrors the source into   *)
(* today's folder.  The model follows main() through one command line      *)
(* invocation, statement block by statement block.                         *)
(***************************************************************************)
EXTENDS Integers, Sequences, FiniteSets, TLC

\* ------------------------------------------------------------------ bounds
\* Folder dates are days 8..MaxDay; the clock starts on day 10.
MaxDay == 11
\* <count> of the incremental profile is drawn from 1..MaxCount.
MaxCount == 3
\* Longest list of profile names on the command line (SpecBatch).
MaxBatch == 2
\* Number of command line invocations in a row (SpecSeq).
MaxRuns == 2

\* ------------------------------------------------------------ names, paths
\* A name is a string, modelled as a tuple of character codes: 0..9 are the
\* digits, larger codes are letters.  Tuples compare as Python strings do.
Digits == 0..9

Days == 8..MaxDay

\* now.strftime("%Y-%m-%d"): fixed width, zero padded digits.
DateName(d) == <<d \div 10, d % 10>>

DateNames == {DateName(d) : d \in Days}

\* A folder of the target whose name is no date ("1x").
MiscName == <<1, 10>>

\* A regular file of the target whose name looks like a date ("07").
StrayFile == <<0, 7>>

\* Regular files ("a", "b").
FileA == <<12>>

FileB == <<13>>

SubNames == DateNames \cup {MiscName}

MODE_SYNC == "synchronize"

MODE_INCR == "incremental"

Roots == {"src", "dstSync", "dstIncr"}

\* A path string: the directory it was built from (root), whether the string
\* is in normalized absolute form (abs), and the joined last component (sub,
\* <<>> for none).  Two paths are the same string iff the records are equal.
RootPath(r, a) == [root |-> r, abs |-> a, sub |-> <<>>]

\* Python's None for a path.
NoPath == [root |-> "none", abs |-> FALSE, sub |-> <<>>]

\* os.path.join(dir, name)
Join(p, name) == [p EXCEPT !.sub = name]

\* os.path.abspath(p): the same directory, string in normalized absolute form
AbsPath(p) == [p EXCEPT !.abs = TRUE]

\* os.path.basename(p)
BaseName(p) == p.sub

\* The directory a path string denotes.
Dir(p) == [root |-> p.root, sub |-> p.sub]

AllDirs == {[root |-> r, sub |-> <<>>] : r \in Roots}
             \cup {[root |-> "dstIncr", sub |-> n] : n \in SubNames}

\* Python's str "<": lexicographic on character codes, a proper prefix first.
LexLess(a, b) ==
    \E i \in 1..Len(b) :
        /\ \A j \in 1..(i - 1) : j <= Len(a) /\ a[j] = b[j]
        /\ (i > Len(a) \/ a[i] < b[i])

\* "<" on the absolute paths of entries of one directory: they share the
\* directory's prefix, so the last component decides.
PathLess(p, q) == LexLess(BaseName(p), BaseName(q))

RECURSIVE Sorted(_)
\* sorted(dirs): ascending
Sorted(S) ==
    IF S = {} THEN <<>>
    ELSE LET m == CHOOSE x \in S : \A y \in S \ {x} : PathLess(x, y)
         IN  <<m>> \o Sorted(S \ {m})

\* dirs.reverse()
Reverse(s) == [i \in 1..Len(s) |-> s[Len(s) + 1 - i]]

\* re.match("^\d\d\d\d-\d\d-\d\d$", name): every position a digit, full width
MatchesDatePattern(name) ==
    /\ Len(name) = 2
    /\ \A i \in 1..2 : name[i] \in Digits

\* ------------------------------------------------------------------- state
VARIABLES
    today,           \* the day datetime.now() falls on
    exist,           \* file system: the directories that exist
    content,         \* file system: directory -> names of the entries in it
                     \*   (for a root: its regular files; its sub-folders are
                     \*   the directories of exist below it)
    definedProfiles, \* name -> BackupProfile, as parsed from the xml file
    args,            \* the parsed command line
    pc,              \* where main() is
    idx,             \* main's loop index i (1-based), 0 before the loop
    loc,             \* locals of backup()/restore(): source, target, toUse,
                     \*   toCopy, toDelete
    err,             \* the exception main() caught and printed, "none" if none
    log,             \* what this invocation did: calls, analyses, commands
    runs,            \* invocations finished so far
    prev,            \* the finished invocation before this one
    exist0,          \* exist when this invocation started
    content0,        \* content when this invocation started
    exitCode         \* exit status of the process, -1 while there is none

vars == <<today, exist, content, definedProfiles, args, pc, idx, loc, err, log,
          runs, prev, exist0, content0, exitCode>>

\* os.path.exists(p)
Exists(p) == Dir(p) \in exist

\* os.path.isdir(p): a directory of the model; regular files are not
IsDir(p) == Dir(p) \in exist

\* Sub-folders of a root directory.
SubDirs(p) == {d.sub : d \in {e \in exist : e.root = p.root /\ e.sub # <<>>}}

\* os.listdir(p): names of all entries
ListDir(p) ==
    IF p.sub = <<>> THEN content[Dir(p)] \cup SubDirs(p) ELSE content[Dir(p)]

NoLoc == [source |-> NoPath, target |-> NoPath, toUse |-> NoPath,
          toCopy |-> NoPath, toDelete |-> NoPath]

NoArgs == [simulate |-> FALSE, delete |-> FALSE, restore |-> FALSE,
           restoreDate |-> <<>>, profile |-> <<>>]

NoPrev == [valid |-> FALSE, args |-> NoArgs, today |-> 0, err |-> "none",
           loc |-> NoLoc, log |-> <<>>, exist |-> {}]

\* The profile main's loop is at.
Profile == definedProfiles[args.profile[idx]]

\* <count> when the profile gives none (BackupProfile.__init__)
DefaultBackupCount == 3

\* ------------------------------------------------- _analyse_backup_folder
\* The dated folders of dir, newest first: listdir, isdir, abspath, the date
\* pattern, sorted, reversed.
DatedDirs(dir) ==
    LET listed  == {AbsPath(Join(dir, f)) :
                       f \in {g \in ListDir(dir) : IsDir(Join(dir, g))}}
        matched == {d \in listed : MatchesDatePattern(BaseName(d))}
    IN  Reverse(Sorted(matched))

\* toCopy: the newest folder, unless it is the very string toUse.
PickCopy(dirs, toUse) ==
    IF Len(dirs) > 0 /\ dirs[1] # toUse THEN dirs[1] ELSE NoPath

\* As PickDelete, taking the first folder beyond the count (the start of the
\* slice dirs[backupCount-1:]) in place of the last one.
PickDeleteFirstExcess(dirs, toUse, backupCount) ==
    IF Len(dirs) > 0 /\ dirs[1] # toUse /\ Len(dirs) >= backupCount
    THEN dirs[backupCount]
    ELSE NoPath

\* As PickDelete, with ">" in place of ">=" in the test of the count.
PickDeleteAboveCount(dirs, toUse, backupCount) ==
    IF Len(dirs) > 0 /\ dirs[1] # toUse /\ Len(dirs) > backupCount
    THEN dirs[Len(dirs)]
    ELSE NoPath

\* toDelete: the last (oldest) folder, in the elif branch only.
PickDelete(dirs, toUse, backupCount) ==
    IF Len(dirs) > 0 /\ dirs[1] # toUse /\ Len(dirs) >= backupCount
    THEN dirs[Len(dirs)]
    ELSE NoPath

\* toUse: os.path.join(dir, folderName), not made absolute
PickUse(dir) == Join(dir, DateName(today))

AnalyseBackupFolder(dir, backupCount) ==
    LET toUse == PickUse(dir)
        dirs  == DatedDirs(dir)
    IN  [toUse    |-> toUse,
         toCopy   |-> PickCopy(dirs, toUse),
         toDelete |-> PickDelete(dirs, toUse, backupCount)]

\* --------------------------------------------------- _check_pre_conditions
\* As CheckPreConditions, without the test for an empty source.
CheckPreConditionsNoEmpty(source, target) ==
    IF ~Exists(source) THEN "SourceMissing"
    ELSE IF ~Exists(target) THEN "TargetMissing"
    ELSE "ok"

CheckPreConditions(source, target) ==
    IF ~Exists(source) THEN "SourceMissing"
    ELSE IF Cardinality(ListDir(source)) = 0 THEN "SourceEmpty"
    ELSE IF ~Exists(target) THEN "TargetMissing"
    ELSE "ok"

\* ------------------------------------------------------ external commands
\* As CommandRaises, every call made with ignoreError.
CommandRaisesNever(ignoreError, ok) == FALSE

\* osutil.execute_command: an exception when the command's status is not 0
\* (ok false), unless ignoreError is given
CommandRaises(ignoreError, ok) == ~ignoreError /\ ~ok

\* As AsksPrompt, without the test for a dry run.
AsksPromptAlways(prompt, simulate) == prompt

\* _sync_dirs: the question "Do you want to continue?" is put when the caller
\* passes prompt (restore does, backup does not) and the run is no dry run
AsksPrompt(prompt, simulate) == prompt /\ ~simulate

\* rm -rf folder
RemoveTree(folder) ==
    [exist   |-> exist \ {Dir(folder)},
     content |-> [content EXCEPT ![Dir(folder)] = {}]]

\* cp -al source target: a new target is a hard-linked copy of source; into
\* an existing target, cp puts the copy below it, under source's name.
CopyLinked(source, target) ==
    IF Exists(target)
    THEN [exist   |-> exist,
          content |-> [content EXCEPT ![Dir(target)] = @ \cup {BaseName(source)}]]
    ELSE [exist   |-> exist \cup {Dir(target)},
          content |-> [content EXCEPT ![Dir(target)] = content[Dir(source)]]]

\* As Rsync, with -n left off the command line.
RsyncIgnoreDryRun(source, target, delete, dryRun) ==
    [exist   |-> exist \cup {Dir(target)},
     content |-> [content EXCEPT ![Dir(target)] =
                     IF delete THEN ListDir(source) ELSE @ \cup ListDir(source)]]

\* rsync [-n] [--delete] source/ target/: the entries of source go into
\* target, which is created when missing; --delete drops what source lacks;
\* -n changes nothing.
Rsync(source, target, delete, dryRun) ==
    IF dryRun
    THEN [exist |-> exist, content |-> content]
    ELSE [exist   |-> exist \cup {Dir(target)},
          content |-> [content EXCEPT ![Dir(target)] =
                          IF delete THEN ListDir(source)
                          ELSE @ \cup ListDir(source)]]

\* As ResolveTarget, without the dry-run case.
ResolveTargetUse(simulate, toUse, toCopy) == toUse

\* backup(): the folder rsync writes to, after the analysis
ResolveTarget(simulate, toUse, toCopy) ==
    IF simulate /\ toCopy # NoPath THEN toCopy ELSE toUse

\* As RestoreSource, reading today's folder whatever the analysis found.
RestoreSourceToday(source, restoreDate, d) ==
    IF restoreDate # <<>> THEN Join(source, restoreDate) ELSE d.toUse

\* As RestoreSource, taking the newest folder whatever --restore-date says.
RestoreSourceNewest(source, restoreDate, d) ==
    IF d.toCopy = NoPath THEN d.toUse ELSE d.toCopy

\* restore(), incremental: the folder to read from; d is the analysis of the
\* profile's target, used without --restore-date only
RestoreSource(source, restoreDate, d) ==
    IF restoreDate # <<>> THEN Join(source, restoreDate)
    ELSE IF d.toCopy = NoPath THEN d.toUse
    ELSE d.toCopy

\* ---------------------------------------------------------------- actions
\* As Raise, with the except clause inside the loop: the error is printed and
\* the loop goes on.
RaiseAndContinue(kind) ==
    /\ pc' = "loop"
    /\ err' = kind
    /\ exitCode' = exitCode

\* An exception leaves backup()/restore() and the loop: main's except clause
\* prints it and main returns; the interpreter ends with status 0.
Raise(kind) ==
    /\ pc' = "done"
    /\ err' = kind
    /\ exitCode' = 0

\* main(): parse the arguments, find the profiles, enter the loop
MainStart(argSet) ==
    /\ pc = "idle"
    /\ \E a \in argSet : args' = a
    /\ pc' = "loop"
    /\ idx' = 0
    /\ loc' = NoLoc
    /\ err' = "none"
    /\ log' = <<>>
    /\ exist0' = exist
    /\ content0' = content
    /\ exitCode' = -1
    /\ UNCHANGED <<today, exist, content, definedProfiles, runs, prev>>

\* for i, profile in enumerate(foundProfiles): backup(profile, args)
CallBackup ==
    /\ pc = "loop"
    /\ idx < Len(args.profile)
    /\ ~args.restore
    /\ idx' = idx + 1
    /\ LET p == definedProfiles[args.profile[idx + 1]]
       IN  /\ loc' = [NoLoc EXCEPT !.source = p.source, !.target = p.target]
           /\ log' = Append(log, [ev |-> "backup", prof |-> idx + 1,
                                  a |-> p.source, b |-> p.target, res |-> "done"])
    /\ pc' = "check"
    /\ UNCHANGED <<today, exist, content, definedProfiles, args, err, runs, prev,
                   exist0, content0, exitCode>>

\* for i, profile in enumerate(foundProfiles): restore(profile, args)
CallRestore ==
    /\ pc = "loop"
    /\ idx < Len(args.profile)
    /\ args.restore
    /\ idx' = idx + 1
    /\ LET p == definedProfiles[args.profile[idx + 1]]
       IN  /\ loc' = [NoLoc EXCEPT !.source = p.target, !.target = p.source]
           /\ log' = Append(log, [ev |-> "restore", prof |-> idx + 1,
                                  a |-> p.target, b |-> p.source, res |-> "done"])
    /\ pc' = "check"
    /\ UNCHANGED <<today, exist, content, definedProfiles, args, err, runs, prev,
                   exist0, content0, exitCode>>

\* the loop is exhausted: main returns, the interpreter ends with status 0
MainReturn ==
    /\ pc = "loop"
    /\ idx >= Len(args.profile)
    /\ pc' = "done"
    /\ exitCode' = 0
    /\ UNCHANGED <<today, exist, content, definedProfiles, args, idx, loc, err,
                   log, runs, prev, exist0, content0>>

\* _check_pre_conditions(source, target), first statement of backup/restore
CheckStep ==
    /\ pc = "check"
    /\ LET r == CheckPreConditions(loc.source, loc.target)
       IN  IF r # "ok"
           THEN Raise(r)
           ELSE /\ pc' = IF Profile.mode = MODE_INCR
                         THEN (IF args.restore THEN "resolve" ELSE "analyse")
                         ELSE "sync"
                /\ UNCHANGED <<err, exitCode>>
    /\ UNCHANGED <<today, exist, content, definedProfiles, args, idx, loc, log,
                   runs, prev, exist0, content0>>

\* backup(): toUse, toCopy, toDelete = _analyse_backup_folder(target, ...)
AnalyseStep ==
    /\ pc = "analyse"
    /\ LET d == AnalyseBackupFolder(loc.target, Profile.backupCount)
       IN  /\ loc' = [loc EXCEPT !.toUse = d.toUse, !.toCopy = d.toCopy,
                                 !.toDelete = d.toDelete]
           /\ log' = Append(log, [ev |-> "analyse", prof |-> idx,
                                  a |-> loc.target, b |-> NoPath, res |-> "done"])
    /\ pc' = "remove"
    /\ UNCHANGED <<today, exist, content, definedProfiles, args, idx, err, runs,
                   prev, exist0, content0, exitCode>>

\* backup(): if toDelete is not None: _remove_incremental_backup(toDelete)
RemoveStep ==
    /\ pc = "remove"
    /\ IF loc.toDelete = NoPath \/ ~Exists(loc.toDelete)
       THEN /\ pc' = "copy"
            /\ UNCHANGED <<exist, content, err, log, exitCode>>
       ELSE IF args.simulate
       THEN /\ pc' = "copy"
            /\ log' = Append(log, [ev |-> "rm", prof |-> idx, a |-> loc.toDelete,
                                   b |-> NoPath, res |-> "printed"])
            /\ UNCHANGED <<exist, content, err, exitCode>>
       ELSE \E ok \in BOOLEAN :
            /\ log' = Append(log, [ev |-> "rm", prof |-> idx, a |-> loc.toDelete,
                                   b |-> NoPath,
                                   res |-> IF ok THEN "done" ELSE "failed"])
            /\ IF ok
               THEN /\ exist' = RemoveTree(loc.toDelete).exist
                    /\ content' = RemoveTree(loc.toDelete).content
               ELSE UNCHANGED <<exist, content>>
            /\ IF CommandRaises(FALSE, ok)
               THEN Raise("CommandFailed")
               ELSE pc' = "copy" /\ UNCHANGED <<err, exitCode>>
    /\ UNCHANGED <<today, definedProfiles, args, idx, loc, runs, prev, exist0,
                   content0>>

\* backup(): if toCopy is not None: _copy_incremental_backup(toCopy, toUse);
\* then target = toUse, or toCopy in a dry run
CopyStep ==
    /\ pc = "copy"
    /\ LET resolved == [loc EXCEPT !.target =
                           ResolveTarget(args.simulate, loc.toUse, loc.toCopy)]
       IN
       IF \/ loc.toCopy = NoPath
          \/ ~Exists(loc.toCopy)
          \/ AbsPath(loc.toCopy) = AbsPath(loc.toUse)
       THEN /\ pc' = "sync"
            /\ loc' = resolved
            /\ UNCHANGED <<exist, content, err, log, exitCode>>
       ELSE IF args.simulate
       THEN /\ pc' = "sync"
            /\ loc' = resolved
            /\ log' = Append(log, [ev |-> "cp", prof |-> idx, a |-> loc.toCopy,
                                   b |-> loc.toUse, res |-> "printed"])
            /\ UNCHANGED <<exist, content, err, exitCode>>
       ELSE \E ok \in BOOLEAN :
            /\ log' = Append(log, [ev |-> "cp", prof |-> idx, a |-> loc.toCopy,
                                   b |-> loc.toUse,
                                   res |-> IF ok THEN "done" ELSE "failed"])
            /\ IF ok
               THEN /\ exist' = CopyLinked(loc.toCopy, loc.toUse).exist
                    /\ content' = CopyLinked(loc.toCopy, loc.toUse).content
               ELSE UNCHANGED <<exist, content>>
            /\ IF CommandRaises(FALSE, ok)
               THEN Raise("CommandFailed") /\ UNCHANGED loc
               ELSE pc' = "sync" /\ loc' = resolved /\ UNCHANGED <<err, exitCode>>
    /\ UNCHANGED <<today, definedProfiles, args, idx, runs, prev, exist0,
                   content0>>

\* restore(), incremental: the folder to read from, and that it exists
ResolveStep ==
    /\ pc = "resolve"
    /\ LET d   == AnalyseBackupFolder(loc.source, Profile.backupCount)
           src == RestoreSource(loc.source, args.restoreDate, d)
           new == IF args.restoreDate # <<>>
                  THEN [loc EXCEPT !.source = src]
                  ELSE [loc EXCEPT !.toUse = d.toUse, !.toCopy = d.toCopy,
                                   !.toDelete = d.toDelete, !.source = src]
       IN  /\ loc' = new
           /\ log' = IF args.restoreDate # <<>> THEN log
                     ELSE Append(log, [ev |-> "analyse", prof |-> idx,
                                       a |-> loc.source, b |-> NoPath,
                                       res |-> "done"])
           /\ IF ~Exists(new.source)
              THEN Raise("NotFound")
              ELSE pc' = "sync" /\ UNCHANGED <<err, exitCode>>
    /\ UNCHANGED <<today, exist, content, definedProfiles, args, idx, runs, prev,
                   exist0, content0>>

\* _sync_dirs(profile, source, target, args, prompt): the prompt of a
\* restore, then rsync; backup()/restore() return to the loop
SyncStep ==
    /\ pc = "sync"
    /\ \E answer \in BOOLEAN :
       LET asked  == AsksPrompt(args.restore, args.simulate)
           logged == IF asked
                     THEN Append(log, [ev |-> IF answer THEN "confirmed"
                                             ELSE "declined",
                                       prof |-> idx, a |-> loc.source,
                                       b |-> loc.target, res |-> "done"])
                     ELSE log
       IN
       /\ ~asked => answer
       /\ IF asked /\ ~answer
          THEN /\ pc' = "loop"
               /\ log' = logged
               /\ UNCHANGED <<exist, content, err, exitCode>>
          ELSE \E ok \in BOOLEAN :
               /\ ok => Exists(loc.source)
               /\ log' = Append(logged, [ev |-> "rsync", prof |-> idx,
                                         a |-> loc.source, b |-> loc.target,
                                         res |-> IF ok THEN "done" ELSE "failed"])
               /\ IF ok
                  THEN /\ exist' = Rsync(loc.source, loc.target, args.delete,
                                         args.simulate).exist
                       /\ content' = Rsync(loc.source, loc.target, args.delete,
                                           args.simulate).content
                  ELSE UNCHANGED <<exist, content>>
               /\ IF CommandRaises(FALSE, ok)
                  THEN Raise("CommandFailed")
                  ELSE pc' = "loop" /\ UNCHANGED <<err, exitCode>>
    /\ UNCHANGED <<today, definedProfiles, args, idx, loc, runs, prev, exist0,
                   content0>>

\* the clock reaches the next day, between two invocations
NextDay ==
    /\ pc = "idle"
    /\ today < MaxDay
    /\ today' = today + 1
    /\ UNCHANGED <<exist, content, definedProfiles, args, pc, idx, loc, err, log,
                   runs, prev, exist0, content0, exitCode>>

\* the process has ended; the tool is started again
NewRun ==
    /\ pc = "done"
    /\ runs + 1 < MaxRuns
    /\ runs' = runs + 1
    /\ prev' = [valid |-> TRUE, args |-> args, today |-> today, err |-> err,
                loc |-> loc, log |-> log, exist |-> exist0]
    /\ pc' = "idle"
    /\ UNCHANGED <<today, exist, content, definedProfiles, args, idx, loc, err,
                   log, exist0, content0, exitCode>>

\* the process has ended without an error; the tool is started again on the
\* next day, as a daily job does (a series of runs ends with the first run
\* that fails)
NextDayRun ==
    /\ pc = "done"
    /\ err = "none"
    /\ runs + 1 < MaxRuns
    /\ today < MaxDay
    /\ runs' = runs + 1
    /\ today' = today + 1
    /\ prev' = [valid |-> TRUE, args |-> args, today |-> today, err |-> err,
                loc |-> loc, log |-> log, exist |-> exist0]
    /\ pc' = "idle"
    /\ UNCHANGED <<exist, content, definedProfiles, args, idx, loc, err, log,
                   exist0, content0, exitCode>>

\* ------------------------------------------- main(): the ways out before the loop
\* A <backup-profile> element of a definition file; a tag that is not there
\* is "none".
XmlProfile(name, source, target, mode) ==
    [name |-> name, source |-> source, target |-> target, mode |-> mode]

\* Definition files: the one of the tests ("sync" and "incr"), and files with
\* a profile that lacks <source>, has an unknown <mode>, or repeats a name.
XmlFiles ==
    {<<XmlProfile("sync", "s", "t", "none"),
       XmlProfile("incr", "s", "t", MODE_INCR)>>,
     <<XmlProfile("sync", "none", "t", MODE_SYNC)>>,
     <<XmlProfile("sync", "s", "t", "mirror")>>,
     <<XmlProfile("sync", "s", "t", MODE_SYNC),
       XmlProfile("sync", "s", "t", MODE_INCR)>>}

\* No definition file among the candidates.
NoFile == <<>>

\* parse_xml_file: the errors of the validation, as <<profile, kind>>; a
\* profile without <mode> has the default mode
ParseErrors(xml) ==
    {e \in (1..Len(xml)) \X {"name", "used", "source", "target", "mode"} :
        LET q == xml[e[1]]
        IN  \/ e[2] = "name" /\ q.name = "none"
            \/ e[2] = "used" /\ \E j \in 1..(e[1] - 1) : xml[j].name = q.name
            \/ e[2] = "source" /\ q.source = "none"
            \/ e[2] = "target" /\ q.target = "none"
            \/ e[2] = "mode" /\ q.mode \notin {"none", MODE_INCR, MODE_SYNC}}

\* Profile names on the command line, one of them of no profile.
NameLists == {<<>>, <<"sync">>, <<"incr">>, <<"nope">>, <<"sync", "nope">>}

\* main() before the loop: the exit status and the reason when main leaves
\* through exit(), status -1 when it goes on to the loop.
EarlyExit(printTemplate, xml, names, profileDetails) ==
    IF printTemplate THEN [code |-> 0, why |-> "template"]
    ELSE IF xml = NoFile THEN [code |-> 1, why |-> "nofile"]
    ELSE IF ParseErrors(xml) # {} THEN [code |-> 1, why |-> "invalid"]
    ELSE IF names = <<>> THEN [code |-> 0, why |-> "list"]
    ELSE IF \E i \in 1..Len(names) :
                \A j \in 1..Len(xml) : xml[j].name # names[i]
         THEN [code |-> 1, why |-> "unknown"]
    ELSE IF profileDetails THEN [code |-> 0, why |-> "details"]
    ELSE [code |-> -1, why |-> "run"]

\* main() leaves through exit(): SystemExit is no Exception, the except
\* clause lets it pass and the process ends with the given status
MainExit ==
    /\ pc = "idle"
    /\ \E printTemplate \in BOOLEAN, xml \in XmlFiles \cup {NoFile},
          names \in NameLists, profileDetails \in BOOLEAN :
         LET e == EarlyExit(printTemplate, xml, names, profileDetails)
         IN  /\ e.code # -1
             /\ exitCode' = e.code
             /\ log' = <<[ev |-> "exit", prof |-> 0, a |-> NoPath,
                          b |-> NoPath, res |-> e.why]>>
    /\ pc' = "done"
    /\ args' = NoArgs
    /\ idx' = 0
    /\ loc' = NoLoc
    /\ err' = "none"
    /\ exist0' = exist
    /\ content0' = content
    /\ UNCHANGED <<today, exist, content, definedProfiles, runs, prev>>

\* ------------------------------------------------------------ initial states
\* The xml file: profile "sync" and profile "incr" read the same source.
ProfilesOf(count, form) ==
    [n \in {"sync", "incr"} |->
        IF n = "sync"
        THEN [name |-> n, mode |-> MODE_SYNC, source |-> RootPath("src", form),
              target |-> RootPath("dstSync", form),
              backupCount |-> DefaultBackupCount]
        ELSE [name |-> n, mode |-> MODE_INCR, source |-> RootPath("src", form),
              target |-> RootPath("dstIncr", form), backupCount |-> count]]

\* A file system: the source missing, empty or with a file; the synchronize
\* target missing or not; the incremental target missing, or holding the dated
\* folders snaps, and with clutter a folder and a file that are no snapshots.
FsExist(source, syncTarget, incrTarget, snaps, clutter) ==
    {d \in AllDirs :
        \/ d.root = "src" /\ source # "missing"
        \/ d.root = "dstSync" /\ syncTarget
        \/ /\ d.root = "dstIncr"
           /\ incrTarget
           /\ \/ d.sub = <<>>
              \/ d.sub \in snaps
              \/ d.sub = MiscName /\ clutter}

FsContent(source, ex, clutter) ==
    [d \in AllDirs |->
        IF d \notin ex THEN {}
        ELSE IF d.root = "src" THEN (IF source = "full" THEN {FileA} ELSE {})
        ELSE IF d.root = "dstIncr" /\ d.sub = <<>>
             THEN (IF clutter THEN {StrayFile} ELSE {})
        ELSE {FileB}]

InitWith(counts, forms, sources, syncTargets, incrTargets, snapSets, clutters) ==
    /\ today = 10
    /\ \E count \in counts, form \in forms :
           definedProfiles = ProfilesOf(count, form)
    /\ \E source \in sources, st \in syncTargets, it \in incrTargets,
          snaps \in snapSets, clutter \in clutters :
           /\ ~it => (snaps = {} /\ ~clutter)
           /\ exist = FsExist(source, st, it, snaps, clutter)
           /\ content = FsContent(source, exist, clutter)
    /\ args = NoArgs
    /\ pc = "idle"
    /\ idx = 0
    /\ loc = NoLoc
    /\ err = "none"
    /\ log = <<>>
    /\ runs = 0
    /\ prev = NoPrev
    /\ exist0 = {}
    /\ content0 = [d \in AllDirs |-> {}]
    /\ exitCode = -1

\* ------------------------------------------------------------ specifications
\* --restore-date values tried: a date and a name that is no date
RestoreDates == {DateName(9), MiscName}

\* One invocation with one profile name, any options.
ArgsSingle ==
    {a \in [simulate : BOOLEAN, delete : BOOLEAN, restore : BOOLEAN,
            restoreDate : {<<>>} \cup RestoreDates,
            profile : {<<"sync">>, <<"incr">>}] :
        ~a.restore => a.restoreDate = <<>>}

Init ==
    InitWith(1..MaxCount, BOOLEAN, {"missing", "empty", "full"}, BOOLEAN,
             BOOLEAN, SUBSET DateNames, BOOLEAN)

Next ==
    \/ MainStart(ArgsSingle)
    \/ CallBackup
    \/ CallRestore
    \/ MainReturn
    \/ CheckStep
    \/ AnalyseStep
    \/ RemoveStep
    \/ CopyStep
    \/ ResolveStep
    \/ SyncStep
    \/ NextDay

Spec == Init /\ [][Next]_vars

\* Invocations in a row on the incremental profile: backups and restores
\* without --restore-date, for real or as dry runs, the clock moving on.
ArgsSeq ==
    [simulate : BOOLEAN, delete : {FALSE}, restore : BOOLEAN,
     restoreDate : {<<>>}, profile : {<<"incr">>}]

InitSeq ==
    InitWith(1..MaxCount, BOOLEAN, {"full"}, {TRUE}, {TRUE}, SUBSET DateNames,
             {TRUE})

NextSeq ==
    \/ MainStart(ArgsSeq)
    \/ CallBackup
    \/ CallRestore
    \/ MainReturn
    \/ CheckStep
    \/ AnalyseStep
    \/ RemoveStep
    \/ CopyStep
    \/ ResolveStep
    \/ SyncStep
    \/ NextDay
    \/ NewRun

SpecSeq == InitSeq /\ [][NextSeq]_vars

\* One invocation with a list of profile names.
BatchLists ==
    UNION {[1..n -> {"sync", "incr"}] : n \in 1..MaxBatch}

ArgsBatch ==
    [simulate : BOOLEAN, delete : {FALSE}, restore : BOOLEAN,
     restoreDate : {<<>>}, profile : BatchLists]

InitBatch ==
    InitWith({DefaultBackupCount}, BOOLEAN, {"missing", "empty", "full"},
             BOOLEAN, BOOLEAN, {{}, {DateName(9)}, {DateName(9), DateName(10)}},
             {FALSE})

NextBatch ==
    \/ MainStart(ArgsBatch)
    \/ CallBackup
    \/ CallRestore
    \/ MainReturn
    \/ CheckStep
    \/ AnalyseStep
    \/ RemoveStep
    \/ CopyStep
    \/ ResolveStep
    \/ SyncStep
    \/ NextDay

SpecBatch == InitBatch /\ [][NextBatch]_vars

\* A real backup of the incremental profile once a day, day after day: every
\* step of a started run is taken, and the next day's run is started.
ArgsDaily ==
    [simulate : {FALSE}, delete : {FALSE}, restore : {FALSE},
     restoreDate : {<<>>}, profile : {<<"incr">>}]

InitDaily ==
    InitWith(1..MaxCount, BOOLEAN, {"full"}, {TRUE}, {TRUE}, SUBSET DateNames,
             {TRUE})

NextDaily ==
    \/ MainStart(ArgsDaily)
    \/ CallBackup
    \/ MainReturn
    \/ CheckStep
    \/ AnalyseStep
    \/ RemoveStep
    \/ CopyStep
    \/ SyncStep
    \/ NextDayRun

SpecDaily == InitDaily /\ [][NextDaily]_vars /\ WF_vars(NextDaily)

\* One invocation from the command line to the exit status of the process:
\* the ways out of main() before the loop, and the loop with one profile.
InitMain ==
    InitWith({DefaultBackupCount}, {TRUE}, {"missing", "empty", "full"},
             BOOLEAN, BOOLEAN, {{}, {DateName(9)}, {DateName(9), DateName(10)}},
             {FALSE})

NextMain ==
    \/ MainExit
    \/ MainStart(ArgsSingle)
    \/ CallBackup
    \/ CallRestore
    \/ MainReturn
    \/ CheckStep
    \/ AnalyseStep
    \/ RemoveStep
    \/ CopyStep
    \/ ResolveStep
    \/ SyncStep
    \/ NextDay

SpecMain == InitMain /\ [][NextMain]_vars

\* ------------------------------------------------------------------ claims
\* The dated snapshot folders of the incremental target among directories ex.
Snaps(ex) == {d \in ex : d.root = "dstIncr" /\ d.sub \in DateNames}

\* Today's snapshot folder of the incremental target.
TodayDir == [root |-> "dstIncr", sub |-> DateName(today)]

\* a before b in lexicographic order, for two-character names
LexBefore(a, b) == a[1] < b[1] \/ (a[1] = b[1] /\ a[2] < b[2])

MinSnap(S) == CHOOSE m \in S : \A s \in S \ {m} : LexBefore(m.sub, s.sub)

MaxSnap(S) == CHOOSE m \in S : \A s \in S \ {m} : LexBefore(s.sub, m.sub)

\* <count> of the incremental profile
R == definedProfiles["incr"].backupCount

\* The analysis of the incremental target has run in this invocation (by
\* backup, or by restore without --restore-date); with one profile on the
\* command line it saw the file system the invocation started with.
Analysed == pc # "idle" /\ loc.toUse # NoPath

\* The events of the log with one of the given names.
Events(names) == {i \in 1..Len(log) : log[i].ev \in names}

\* C1: one analysis marks at most one folder for deletion, and a marked folder
\* is the lexicographically smallest dated folder of the target; one
\* invocation issues at most one rm, and at most one of the snapshots that
\* were there when it started is missing at any point of it.
C1_AtMostOneOldest ==
    /\ (Analysed /\ loc.toDelete # NoPath) =>
           /\ Dir(loc.toDelete) \in Snaps(exist0)
           /\ \A s \in Snaps(exist0) : ~LexBefore(s.sub, loc.toDelete.sub)
    /\ pc # "idle" =>
           /\ Cardinality(Events({"rm"})) <= 1
           /\ Cardinality(Snaps(exist0) \ exist) <= 1

\* C1 witness: a real incremental backup has ended, it has removed the oldest
\* of more snapshots than the count.
C1_Witness ==
    /\ pc = "done"
    /\ err = "none"
    /\ ~args.restore
    /\ ~args.simulate
    /\ loc.toDelete # NoPath
    /\ Cardinality(Snaps(exist0)) > R
    /\ Snaps(exist0) \ exist = {Dir(loc.toDelete)}

\* C2: the analysis equals the reference: use is target/today; no snapshots,
\* or the newest snapshot being today's folder, give neither a folder to copy
\* nor one to delete; otherwise the newest is copied, and the oldest is deleted
\* exactly when there are at least <count> snapshots.
C2_Reference ==
    Analysed =>
        LET S == Snaps(exist0)
        IN  /\ loc.toUse = Join(definedProfiles["incr"].target, DateName(today))
            /\ IF S = {} \/ MaxSnap(S) = TodayDir
               THEN loc.toCopy = NoPath /\ loc.toDelete = NoPath
               ELSE /\ loc.toCopy # NoPath
                    /\ Dir(loc.toCopy) = MaxSnap(S)
                    /\ IF Cardinality(S) >= R
                       THEN loc.toDelete # NoPath /\ Dir(loc.toDelete) = MinSnap(S)
                       ELSE loc.toDelete = NoPath

\* C3: when the newest snapshot is today's folder, a backup's analysis gives
\* no folder to copy, the run issues no cp, and rsync writes into today's
\* folder.
C3_SameDayIdempotent ==
    (/\ Analysed
     /\ ~args.restore
     /\ Snaps(exist0) # {}
     /\ MaxSnap(Snaps(exist0)) = TodayDir) =>
        /\ loc.toCopy = NoPath
        /\ Events({"cp"}) = {}
        /\ \A i \in Events({"rsync"}) : Dir(log[i].b) = TodayDir

\* The rm commands of this invocation that were run and succeeded.
Removed == {i \in Events({"rm"}) : log[i].res = "done"}

\* C4: every real incremental backup that ends without error on a target
\* holding at least <count> snapshots removes exactly one folder, the oldest,
\* a second run on the same day included.
C4_EveryRunDeletesOne ==
    (/\ pc = "done"
     /\ err = "none"
     /\ ~args.restore
     /\ ~args.simulate
     /\ Cardinality(Snaps(exist0)) >= R) =>
        /\ Cardinality(Removed) = 1
        /\ \A i \in Removed : Dir(log[i].a) = MinSnap(Snaps(exist0))

\* This invocation is a restore without --restore-date that follows, on the
\* same day and with the same dry-run flag, a backup that ended without error.
RestoreAfterBackup ==
    /\ prev.valid
    /\ ~prev.args.restore
    /\ prev.err = "none"
    /\ prev.today = today
    /\ prev.args.simulate = args.simulate
    /\ pc # "idle"
    /\ args.restore
    /\ loc.toUse # NoPath

\* C5: such a restore reads from the folder the backup's rsync wrote to, or
\* from the folder the backup's analysis gave to copy.
C5_RestoreAfterBackup ==
    RestoreAfterBackup =>
        \/ Dir(loc.source) = Dir(prev.loc.target)
        \/ prev.loc.toCopy # NoPath /\ Dir(loc.source) = Dir(prev.loc.toCopy)

\* C5 witness: a real restore after a real backup that had a folder to copy
\* has found its folder and is about to run rsync.
C5_Witness ==
    /\ RestoreAfterBackup
    /\ ~args.simulate
    /\ prev.loc.toCopy # NoPath
    /\ pc = "sync"

\* The first profile named on the command line.
P1 == definedProfiles[args.profile[1]]

\* os.listdir of a path in the file system the invocation started with.
Entries0(p) ==
    IF p.sub = <<>>
    THEN content0[Dir(p)]
           \cup {d.sub : d \in {e \in exist0 : e.root = p.root /\ e.sub # <<>>}}
    ELSE content0[Dir(p)]

\* What the pre-conditions of the first profile come to, read off the file
\* system the invocation started with: backup checks (source, target), restore
\* the swapped pair.
PreRef ==
    LET s == IF args.restore THEN P1.target ELSE P1.source
        t == IF args.restore THEN P1.source ELSE P1.target
    IN  IF Dir(s) \notin exist0 THEN "SourceMissing"
        ELSE IF Entries0(s) = {} THEN "SourceEmpty"
        ELSE IF Dir(t) \notin exist0 THEN "TargetMissing"
        ELSE "ok"

PreErrors == {"SourceMissing", "SourceEmpty", "TargetMissing"}

\* The pre-conditions of the first profile have been checked.
Checked == pc \in {"analyse", "remove", "copy", "resolve", "sync", "done"}
              \/ (pc = "loop" /\ idx >= 1)

\* C6: a missing source, else an empty source, else a missing target makes
\* backup and restore end with that error, before any analysis and any
\* command, the file system as it was; restore checks the swapped pair; an
\* empty target is no error.
C6_PreconditionFailure ==
    Checked =>
        IF PreRef # "ok"
        THEN /\ pc = "done"
             /\ err = PreRef
             /\ exist = exist0
             /\ content = content0
             /\ Events({"analyse", "rm", "cp", "rsync", "declined"}) = {}
        ELSE err \notin PreErrors

\* C6 witness: a restore has failed on the empty target of the profile, the
\* profile's source holding a file.
C6_Witness ==
    /\ pc = "done"
    /\ args.restore
    /\ err = "SourceEmpty"
    /\ Entries0(P1.source) # {}

\* C7: a dry-run backup, of either mode, leaves every directory and every
\* entry as it was; in incremental mode the analysis is still made, and the
\* rm and cp it calls for are printed.
C7_DryRunBackupChangesNothing ==
    (pc # "idle" /\ args.simulate /\ ~args.restore) =>
        /\ exist = exist0
        /\ content = content0
        /\ (pc = "done" /\ err = "none" /\ P1.mode = MODE_INCR) =>
               LET d == AnalyseBackupFolder(P1.target, P1.backupCount)
               IN  /\ Events({"analyse"}) # {}
                   /\ loc.toUse = d.toUse
                   /\ loc.toCopy = d.toCopy
                   /\ loc.toDelete = d.toDelete
                   /\ loc.toDelete # NoPath =>
                          \E i \in Events({"rm"}) :
                              log[i].a = loc.toDelete /\ log[i].res = "printed"

\* C7 witness: a dry-run incremental backup has ended; its analysis gave a
\* folder to delete and a folder to copy.
C7_Witness ==
    /\ pc = "done"
    /\ err = "none"
    /\ args.simulate
    /\ ~args.restore
    /\ P1.mode = MODE_INCR
    /\ loc.toDelete # NoPath
    /\ loc.toCopy # NoPath

\* C8: the rsync of an incremental backup writes to toUse, today's folder, in
\* a real run; in a dry run to toCopy when the analysis gave one, else to
\* toUse, which is the newest snapshot if there is any; a dry run with one
\* snapshot writes to that snapshot and runs no rm and no cp.
C8_MirrorTarget ==
    (pc # "idle" /\ ~args.restore /\ P1.mode = MODE_INCR) =>
        /\ \A i \in Events({"rsync"}) :
            /\ log[i].b = IF args.simulate /\ loc.toCopy # NoPath
                          THEN loc.toCopy ELSE loc.toUse
            /\ loc.toUse = Join(P1.target, DateName(today))
            /\ ~args.simulate => Dir(log[i].b) = TodayDir
            /\ args.simulate =>
                   Dir(log[i].b) = IF Snaps(exist0) = {} THEN TodayDir
                                   ELSE MaxSnap(Snaps(exist0))
        /\ args.simulate => \A j \in Events({"rm", "cp"}) : log[j].res = "printed"

\* C8 witness: a dry-run incremental backup on a target with one snapshot,
\* not today's, has run rsync.
C8_Witness ==
    /\ pc = "done"
    /\ err = "none"
    /\ args.simulate
    /\ ~args.restore
    /\ P1.mode = MODE_INCR
    /\ Cardinality(Snaps(exist0)) = 1
    /\ TodayDir \notin exist0
    /\ \E i \in Events({"rsync"}) : Dir(log[i].b) \in Snaps(exist0)

\* The profiles of the command line that backup() or restore() was called on.
Called == {log[i].prof : i \in Events({"backup", "restore"})}

\* C9: when main has ended, every profile named on the command line was
\* processed, an error in an earlier one notwithstanding.
C9_LaterProfilesProcessed ==
    pc = "done" => Called = 1..Len(args.profile)

\* C9 amended: an error ends the invocation: it is caught around the whole of
\* main, so the profiles after the failing one are not processed; without an
\* error all are.
C9_ErrorEndsBatch ==
    /\ err # "none" => pc = "done"
    /\ pc = "done" =>
           /\ Called = 1..idx
           /\ \A i \in 1..Len(log) : log[i].prof <= idx
           /\ err = "none" => idx = Len(args.profile)

\* C9 witness: the first of two profiles has failed and the second, whose
\* pre-conditions are met, was not called.
C9_Witness ==
    /\ pc = "done"
    /\ err # "none"
    /\ idx = 1
    /\ Len(args.profile) = 2
    /\ Called = {1}
    /\ LET p == definedProfiles[args.profile[2]]
       IN  IF args.restore
           THEN CheckPreConditions(p.target, p.source) = "ok"
           ELSE CheckPreConditions(p.source, p.target) = "ok"

\* C10: a restore of the incremental profile with --restore-date d reads
\* target/d, whatever snapshots exist, and writes to the profile's source; if
\* target/d does not exist (the pre-conditions met) it ends with the not-found
\* error, has run no rsync and has left the file system as it was.
C10_RestoreDate ==
    (pc # "idle" /\ args.restore /\ args.restoreDate # <<>>
        /\ P1.mode = MODE_INCR) =>
        LET want == Join(P1.target, args.restoreDate)
        IN  /\ Events({"analyse"}) = {}
            /\ \A i \in Events({"rsync", "declined"}) :
                   log[i].a = want /\ log[i].b = P1.source
            /\ pc = "sync" => (loc.source = want /\ loc.target = P1.source)
            /\ (pc = "done" /\ Dir(want) \notin exist0) =>
                   /\ err = IF PreRef = "ok" THEN "NotFound" ELSE PreRef
                   /\ Events({"rsync"}) = {}
                   /\ exist = exist0
                   /\ content = content0
            /\ err = "NotFound" => Dir(want) \notin exist0

\* C10 witness: a restore with --restore-date has ended with the not-found
\* error although the target holds snapshots.
C10_Witness ==
    /\ pc = "done"
    /\ err = "NotFound"
    /\ args.restoreDate # <<>>
    /\ Snaps(exist0) # {}

\* This invocation is a real (not dry-run) backup of the incremental profile
\* that has ended without error.
RealBackupDone ==
    /\ pc = "done"
    /\ err = "none"
    /\ ~args.restore
    /\ ~args.simulate
    /\ Len(args.profile) = 1
    /\ P1.mode = MODE_INCR

\* Number of dated snapshot folders of the incremental target among ex.
SnapCount(ex) == Cardinality(Snaps(ex))

\* C11: a real incremental backup that ends without error on a target holding
\* at most <count> dated snapshots leaves at most <count> of them, whatever
\* the day and whatever ran before; by induction over the runs the bound
\* holds at the end of every run of a sequence that starts within it.
C11_RetentionBound ==
    (RealBackupDone /\ SnapCount(exist0) <= R) => SnapCount(exist) <= R

\* C11 witness: the second run of a sequence, on a later day than the first,
\* started with exactly <count> snapshots, removed the oldest and made
\* today's.
C11_Witness ==
    /\ RealBackupDone
    /\ prev.valid
    /\ prev.today < today
    /\ SnapCount(exist0) = R
    /\ TodayDir \notin exist0
    /\ TodayDir \in exist
    /\ Removed # {}
    /\ SnapCount(exist) = R

\* The way main() left before the loop, "run" when it went into the loop.
ExitWhy ==
    IF Len(log) > 0 /\ log[1].ev = "exit" THEN log[1].res ELSE "run"

\* C12: when the process has ended: after a failed backup or restore (a
\* pre-condition error, the not-found error, a failed command) the exit
\* status is 1; status 0 comes only from a run without error and from the
\* informational ways out; an invalid definition file gives status 1 with
\* no profile processed.
C12_ExitCodes ==
    pc = "done" =>
        /\ err # "none" => exitCode = 1
        /\ exitCode = 0 =>
               /\ err = "none"
               /\ ExitWhy \in {"run", "template", "list", "details"}
        /\ ExitWhy = "invalid" => (exitCode = 1 /\ Called = {})

\* This invocation is a real (not dry-run) backup of the incremental profile.
RealIncrBackup ==
    /\ pc # "idle"
    /\ Len(args.profile) = 1
    /\ ~args.restore
    /\ ~args.simulate
    /\ P1.mode = MODE_INCR

\* Place of a command in the order rm, cp, rsync.
Rank(ev) == IF ev = "rm" THEN 1 ELSE IF ev = "cp" THEN 2 ELSE 3

\* The commands run so far.
Cmds == Events({"rm", "cp", "rsync"})

\* The commands with the given name and result.
CmdsWith(ev, res) == {i \in Events({ev}) : log[i].res = res}

\* C13: in a real incremental backup the commands run in the order rm, cp,
\* rsync, each at most once, rm only on the folder to delete and cp only
\* from the folder to copy into today's; a command that fails is the last
\* one and ends the run with its error; what the commands before it did
\* stays: after rm and a failed cp the removed folder is gone and rsync was
\* not run; a run without error has run rsync once.
C13_OrderFailFast ==
    RealIncrBackup =>
        /\ \A i, j \in Cmds : i < j => Rank(log[i].ev) < Rank(log[j].ev)
        /\ \A i \in Events({"rm"}) :
               loc.toDelete # NoPath /\ log[i].a = loc.toDelete
        /\ \A i \in Events({"cp"}) :
               /\ loc.toCopy # NoPath
               /\ log[i].a = loc.toCopy
               /\ log[i].b = loc.toUse
        /\ \A i \in Cmds :
               log[i].res = "failed" =>
                   (i = Len(log) /\ pc = "done" /\ err = "CommandFailed")
        /\ (CmdsWith("rm", "done") # {} /\ CmdsWith("cp", "failed") # {}) =>
               (Dir(loc.toDelete) \notin exist /\ Events({"rsync"}) = {})
        /\ (CmdsWith("rm", "done") # {} /\ Events({"cp"}) = {}
               /\ CmdsWith("rsync", "failed") # {}) =>
               Dir(loc.toDelete) \notin exist
        /\ (CmdsWith("cp", "done") # {} /\ CmdsWith("rsync", "failed") # {}) =>
               Dir(loc.toUse) \in exist
        /\ (pc = "done" /\ err = "none") =>
               Cardinality(CmdsWith("rsync", "done")) = 1

\* C13 witness: rm has removed the oldest snapshot, then cp has failed and
\* ended the run.
C13_Witness ==
    /\ RealIncrBackup
    /\ pc = "done"
    /\ err = "CommandFailed"
    /\ CmdsWith("rm", "done") # {}
    /\ CmdsWith("cp", "failed") # {}
    /\ Dir(loc.toDelete) \in exist0

\* The snapshots of the target when the first run of the daily series
\* started (known up to the second run).
SeriesStart == IF runs = 0 THEN exist0 ELSE prev.exist

\* C14: a target holding more than <count> snapshots, all older than the
\* first day, is brought down to at most <count> by real incremental backups
\* run day after day without error, one deletion per run: once as many runs
\* have ended as there were snapshots above <count>, at most <count> are
\* left.
C14_ReclaimedByDailyRuns ==
    (/\ RealBackupDone
     /\ runs <= 1
     /\ \A d \in Snaps(SeriesStart) : LexBefore(d.sub, DateName(today - runs))
     /\ SnapCount(SeriesStart) > R
     /\ SnapCount(SeriesStart) - R <= runs + 1) =>
        SnapCount(exist) <= R

\* C14 as a property of the whole series: from more than <count> snapshots
\* the series leads to at most <count> (a run that fails ends the series).
EventuallyReclaimed ==
    (SnapCount(exist) > R) ~> (SnapCount(exist) <= R \/ err # "none")

\* Behind C14, what a daily run does: a real incremental backup that ends
\* without error, on a day whose folder was not there and a target holding
\* at least <count> snapshots, removes one folder and makes one, so the
\* target holds as many snapshots after the run as before it.
DailyRunKeepsCount ==
    (RealBackupDone /\ TodayDir \notin exist0 /\ SnapCount(exist0) >= R) =>
        /\ Cardinality(Removed) = 1
        /\ TodayDir \in exist
        /\ SnapCount(exist) = SnapCount(exist0)

\* The directories below (and including) the one path p names are now as they
\* were when the invocation started.
TreeAsAtStart(p) ==
    \A d \in AllDirs :
        d.root = p.root =>
            /\ (d \in exist) = (d \in exist0)
            /\ content[d] = content0[d]

\* The questions put so far, with their answers.
Prompts == Events({"confirmed", "declined"})

\* C15: a restore, of either mode and with any options, runs no rm and no cp
\* and leaves the profile's target, its snapshots included, as it was; all
\* it may change is the profile's source, by one rsync from the folder it
\* resolved to read from; without -n that rsync runs only after the
\* question was answered with yes, and on no the restore ends without error
\* and with nothing changed; with -n no question is put and nothing is
\* changed; a backup puts no question.
C15_RestoreFrame ==
    (pc # "idle" /\ Len(args.profile) = 1) =>
        /\ args.restore =>
               /\ Events({"rm", "cp"}) = {}
               /\ TreeAsAtStart(P1.target)
               /\ \A d \in AllDirs :
                      d # Dir(P1.source) =>
                          ((d \in exist) = (d \in exist0)
                              /\ content[d] = content0[d])
               /\ Cardinality(Events({"rsync"})) <= 1
               /\ \A i \in Events({"rsync"}) :
                      /\ log[i].a = loc.source
                      /\ log[i].b = P1.source
                      /\ ~args.simulate =>
                             (i > 1 /\ log[i - 1].ev = "confirmed")
               /\ args.simulate =>
                      (Prompts = {} /\ exist = exist0 /\ content = content0)
               /\ Events({"declined"}) # {} =>
                      /\ err = "none"
                      /\ Events({"rsync"}) = {}
                      /\ exist = exist0
                      /\ content = content0
        /\ ~args.restore => Prompts = {}

\* C15 witness: a real restore of the incremental profile has ended after
\* the question was answered with no.
C15_Witness ==
    /\ pc = "done"
    /\ args.restore
    /\ ~args.simulate
    /\ P1.mode = MODE_INCR
    /\ Events({"declined"}) # {}

\* C16: whenever the analysis of a backup gives both a folder to copy and a
\* folder to delete they are different directories; in a real run the
\* folder to copy is still there once rm has removed the folder to delete;
\* and at every point of the run the target holds a snapshot that was there
\* when the run started, or today's, finished by the run's rsync.
C16_CloneSourceSurvives ==
    (/\ pc # "idle"
     /\ Len(args.profile) = 1
     /\ ~args.restore
     /\ P1.mode = MODE_INCR
     /\ Analysed) =>
        /\ (loc.toCopy # NoPath /\ loc.toDelete # NoPath) =>
               Dir(loc.toCopy) # Dir(loc.toDelete)
        /\ (loc.toCopy # NoPath /\ CmdsWith("rm", "done") # {}
               /\ Events({"cp"}) = {} /\ pc = "copy") =>
               Dir(loc.toCopy) \in exist
        /\ Snaps(exist0) # {} =>
               \/ Snaps(exist) \cap Snaps(exist0) # {}
               \/ CmdsWith("rsync", "done") # {} /\ TodayDir \in exist

====
